---- MODULE Spec2Model ----
(***************************************************************************)
(* A model of the rust_sequencer crate: the frequency lookup table, the    *)
(* sequence analysis, the instruments' key caches and sound generation,    *)
(* MusicSequencer::render, and the hardware and software sequence helpers. *)
(*                                                                         *)
(* Numbers.  A time (f64, seconds) that is an ordinary finite number is    *)
(* the integer n standing for n / TimeDen seconds; a frequency is an       *)
(* integer number of hertz.  Where the code tests the class of an f64      *)
(* (is_normal, > 0) the value is an F64 record that keeps the class.       *)
(* A sample (f32) of a key is an integer in {-1, 0, 1}; a sample of the    *)
(* rendered buffer is the exact rational num / den, kept as its numerator  *)
(* with the denominator stored once for the buffer, so the arithmetic of   *)
(* the model is exact where the code rounds to f32.                        *)
(***************************************************************************)
EXTENDS Integers, Sequences, FiniteSets, TLC

VARIABLES
    notes,        \* MusicSequencer.sequence.notes: Vec<Note>
    lut,          \* MusicSequencer.frequency_lut.lut: HashMap<usize, f64>
    instruments,  \* MusicSequencer.instruments.instruments: HashMap<usize, Instrument>
    current_instruments,  \* HardwareSequenceHelper.current_instruments: the notes begun
    at_time,      \* the helper's at_time, in units of 1 / TimeDen seconds
    ret           \* the last call made on the object and what it returned

\* notes is also the sequence.notes of a sequence helper, where a helper is modelled
vars == <<notes, lut, instruments, current_instruments, at_time, ret>>

\* the fields that only a sequence helper has
helper_vars == <<current_instruments, at_time>>

----------------------------------------------------------------------------
(* Parameters and bounds *)

\* pcm_parameters.sample_rate, in hertz
SampleRate == 4
\* pcm_parameters.nb_channels
NbChannels == 2
\* a time n stands for n / TimeDen seconds: half a frame, the resolution at which
\* rounding to the nearest frame and truncating to a whole frame differ
TimeDen == 2 * SampleRate
\* a velocity n stands for n / VelDen
VelDen == 2
\* the longest cached key, in frames
MaxKeyLen == 3
\* the longest duration asked of gen_sound, in units of 1 / TimeDen seconds
MaxSoundDur == 12
\* the largest frequency id put in a lookup table
MaxFreqId == 2
\* the most notes put in a sequence that is analysed
MaxNotes == 3
\* the latest start or end of a note of a sequence that is analysed
MaxSeqTime == 2
\* the most notes put in a sequence that is rendered
MaxRenderNotes == 2
\* the latest time a sequence helper is moved forward to
MaxHelperTime == 2
\* the most notes a sequence helper closes or adds
MaxHelperNotes == 2

\* HashMap::insert
Insert(m, k, v) == (k :> v) @@ m
\* the empty HashMap
EmptyMap == <<>>

\* What a call returned: Ok(val), Err(err), or a panic that unwinds out of it.
Ok(val) == [status |-> "ok", err |-> "", val |-> val]
Err(e) == [status |-> "err", err |-> e, val |-> <<>>]
Panic(why) == [status |-> "panic", err |-> why, val |-> <<>>]

\* The record of a call: the operation, its arguments, its outcome.
Call(op, arg, out) == [op |-> op, arg |-> arg, out |-> out]
NoCall == Call("none", <<>>, Ok(<<>>))

----------------------------------------------------------------------------
(* f64 values, by class *)

Num(n) == [cls |-> "finite", v |-> n]     \* zero or a normal number, n in the unit of its use
NaN == [cls |-> "nan", v |-> 0]
PosInf == [cls |-> "inf", v |-> 1]
NegInf == [cls |-> "inf", v |-> -1]
Subnormal == [cls |-> "subnormal", v |-> 1]  \* a positive subnormal, such as 1e-310

\* f64::is_normal: neither zero, infinite, subnormal, nor NaN
is_normal(x) == x.cls = "finite" /\ x.v # 0

\* self > &0f64 (false for NaN)
gt_zero(x) == x.cls # "nan" /\ x.v > 0

\* the bug of testing the sign alone
is_valid_sign_only(x) == gt_zero(x)

is_valid_time_frequency(x) == is_normal(x) /\ gt_zero(x)

check_valid_time_frequency(x) ==
    IF ~is_valid_time_frequency(x) THEN Err("ImpossibleTimeOrFrequency") ELSE Ok(<<>>)

----------------------------------------------------------------------------
(* FrequencyLookupTable *)

FrequencyLookupTable_get(flut, id) ==
    IF id \in DOMAIN flut
    THEN LET v == flut[id]
             c == check_valid_time_frequency(v)
         IN IF c.status = "err" THEN c ELSE Ok(v)
    ELSE Err("NoFrequencyForID")

----------------------------------------------------------------------------
(* Float to integer conversions of a time multiplied by the sample rate *)

\* the bug of rounding to the nearest frame where the code truncates
FramesToNearest(t) == (2 * t * SampleRate + TimeDen) \div (2 * TimeDen)

\* (t * f64::from(sample_rate)) as usize, for t >= 0: truncation
FramesTrunc(t) == (t * SampleRate) \div TimeDen

\* the bug of truncating where the code rounds
FramesRoundedDown(t) == (t * SampleRate) \div TimeDen

\* (t * f64::from(sample_rate)).round() as usize, for t >= 0: half away from zero
FramesRound(t) == (2 * t * SampleRate + TimeDen) \div (2 * TimeDen)

----------------------------------------------------------------------------
(* Instrument::gen_sound *)

\* the loop of a loopable instrument, from frame_position to needed_frames
RECURSIVE LoopFrames(_, _, _, _)
LoopFrames(frames, frame_position, needed_frames, final_sound) ==
    IF frame_position < needed_frames
    THEN LoopFrames(frames, frame_position + 1, needed_frames,
             Append(final_sound, frames[(frame_position % (Len(frames) - 1)) + 1]))
    ELSE final_sound

\* the bug of never moving last_frame off the key's first frame
RECURSIVE HoldFirstFrame(_, _, _, _, _)
HoldFirstFrame(frames, frame_position, needed_frames, last_frame, final_sound) ==
    IF frame_position < needed_frames
    THEN HoldFirstFrame(frames, frame_position + 1, needed_frames, last_frame,
             Append(final_sound,
                    IF frame_position < Len(frames) THEN frames[frame_position + 1]
                    ELSE last_frame))
    ELSE final_sound

\* the loop of a non-loopable instrument, holding last_frame past the key's end
RECURSIVE HoldFrames(_, _, _, _, _)
HoldFrames(frames, frame_position, needed_frames, last_frame, final_sound) ==
    IF frame_position < needed_frames
    THEN IF frame_position < Len(frames)
         THEN HoldFrames(frames, frame_position + 1, needed_frames,
                  frames[frame_position + 1],
                  Append(final_sound, frames[frame_position + 1]))
         ELSE HoldFrames(frames, frame_position + 1, needed_frames,
                  last_frame, Append(final_sound, last_frame))
    ELSE final_sound

\* duration is an F64 record in units of 1 / TimeDen seconds
gen_sound(inst, frequency_id, duration) ==
    LET c == check_valid_time_frequency(duration) IN
    IF c.status = "err" THEN c
    ELSE IF frequency_id \notin DOMAIN inst.keys THEN Err("NoKeyForID")
    ELSE LET frames == inst.keys[frequency_id]
             needed_frames == FramesTrunc(duration.v)
         IN IF inst.loopable
            THEN IF needed_frames = 0 THEN Ok(<<>>)
                 ELSE IF Len(frames) = 0
                      THEN Panic("len() - 1 underflows, or index out of bounds")
                 ELSE IF Len(frames) = 1
                      THEN Panic("remainder with a divisor of zero")
                 ELSE Ok(LoopFrames(frames, 0, needed_frames, <<>>))
            ELSE IF Len(frames) = 0
                 THEN Panic("index out of bounds: frames[0]")
                 ELSE Ok(HoldFrames(frames, 0, needed_frames, frames[1], <<>>))

----------------------------------------------------------------------------
(* Note and Sequence *)

Note(start_at, end_at, duration, frequency_id, on_velocity, instrument_id) ==
    [start_at |-> start_at, end_at |-> end_at, duration |-> duration,
     frequency_id |-> frequency_id, on_velocity |-> on_velocity,
     off_velocity |-> 0, instrument_id |-> instrument_id]

\* Vec::push
add_note(ns, new) == Append(ns, new)

\* one insertion of the stable sort: n goes after every note that does not start later
RECURSIVE InsertByTime(_, _)
InsertByTime(sorted, n) ==
    IF sorted = <<>> THEN <<n>>
    ELSE IF n.start_at < Head(sorted).start_at THEN <<n>> \o sorted
    ELSE <<Head(sorted)>> \o InsertByTime(Tail(sorted), n)

\* the bug of leaving the notes in the order given
sort_skipped(ns) == ns

\* slice::sort_by on start_at: a stable sort
RECURSIVE sort_by_time(_)
sort_by_time(ns) ==
    IF ns = <<>> THEN <<>>
    ELSE InsertByTime(sort_by_time(SubSeq(ns, 1, Len(ns) - 1)), ns[Len(ns)])

\* the bug of a strict comparison with the start of the previous time
StartsStrictlyInside(previous_time, note) ==
    (previous_time[1] < note.start_at) /\ (note.start_at < previous_time[2])

\* the test of the inner loop: the note starts inside [previous_time[0], previous_time[1])
StartsInside(previous_time, note) ==
    (previous_time[1] <= note.start_at) /\ (note.start_at < previous_time[2])

\* passed: how many previous times the note starts inside
RECURSIVE CountPassed(_, _)
CountPassed(previous_times, note) ==
    IF previous_times = <<>> THEN 0
    ELSE (IF StartsInside(Head(previous_times), note) THEN 1 ELSE 0)
         + CountPassed(Tail(previous_times), note)

\* failed: the ids (from 0) of the previous times the note does not start inside
RECURSIVE ListFailed(_, _, _)
ListFailed(previous_times, note, id) ==
    IF id >= Len(previous_times) THEN <<>>
    ELSE (IF StartsInside(previous_times[id + 1], note) THEN <<>> ELSE <<id>>)
         \o ListFailed(previous_times, note, id + 1)

\* Vec::remove(index), index from 0
RemoveAt(s, index) == SubSeq(s, 1, index) \o SubSeq(s, index + 2, Len(s))

\* for id in failed { previous_times.remove(id - iter); iter += 1 }
RECURSIVE RemoveFailed(_, _, _)
RemoveFailed(previous_times, failed, iter) ==
    IF failed = <<>> THEN previous_times
    ELSE RemoveFailed(RemoveAt(previous_times, Head(failed) - iter), Tail(failed), iter + 1)

Max2(a, b) == IF a >= b THEN a ELSE b

\* the outer loop over the sorted notes, from note number i (from 1)
RECURSIVE SweepNotes(_, _, _, _)
SweepNotes(ns, i, max_notes, previous_times) ==
    IF i > Len(ns) THEN max_notes
    ELSE LET note == ns[i]
             passed == CountPassed(previous_times, note)
             failed == ListFailed(previous_times, note, 0)
         IN SweepNotes(ns, i + 1, Max2(max_notes, passed + 1),
                Append(RemoveFailed(previous_times, failed, 0),
                       <<note.start_at, note.end_at>>))

\* returns the count and the notes as the call leaves them (sorted)
calc_max_notes_at_once(ns) ==
    IF ns = <<>> THEN [count |-> 0, notes |-> ns]
    ELSE LET sorted == sort_by_time(ns)
         IN [count |-> SweepNotes(sorted, 1, 1, <<>>), notes |-> sorted]

\* the bug of keeping the end of the note read last
LastEnd(duration, note) == note.end_at

\* one step of the loop of calc_music_duration
LongerEnd(duration, note) == IF note.end_at > duration THEN note.end_at ELSE duration

RECURSIVE MusicDurationFrom(_, _, _)
MusicDurationFrom(ns, i, duration) ==
    IF i > Len(ns) THEN duration
    ELSE MusicDurationFrom(ns, i + 1, LongerEnd(duration, ns[i]))

calc_music_duration(ns) == MusicDurationFrom(ns, 1, 0)

----------------------------------------------------------------------------
(* KeyGenerator: the tone generators and the pitch changer *)

\* one Frame of nb_channels samples of the same value
FrameOf(value) == [c \in 1 .. NbChannels |-> value]

\* the frames pushed while pos_sample < nb_samples = sample_rate * duration
SquareLen(duration) ==
    IF duration <= 0 THEN 0 ELSE (duration * SampleRate + TimeDen - 1) \div TimeDen

\* (pos_seconds % note_period) <= half_note_period, at pos_seconds = k / sample_rate
SquareSample(frequency, k) == IF 2 * ((k * frequency) % SampleRate) <= SampleRate THEN 1 ELSE -1

\* SquareWaveGenerator::key_gen
square_key_gen(frequency, duration) ==
    [k \in 1 .. SquareLen(duration) |-> FrameOf(SquareSample(frequency, k - 1))]

\* sin of q quarter turns
QuarterSine(q) == <<0, 1, 0, -1>>[(q % 4) + 1]

\* sin((sample / nb_samples) * 2 pi), nb_samples = sample_rate / frequency: the phase
\* is a whole number of quarter turns at the sample rate and frequencies of the
\* model, where the sine is 0, 1 or -1 (to within 1e-15 at the zeros in f64)
SineSample(frequency, k) == QuarterSine((4 * k * frequency) \div SampleRate)

\* SineWaveGenerator::key_gen: the samples 0, 1, ... while sample <= nb_samples
sine_key_gen(frequency) ==
    [k \in 1 .. (SampleRate \div frequency) + 1 |-> FrameOf(SineSample(frequency, k - 1))]

\* g.key_gen(frequency, parameters, duration) for the generator the instrument holds
key_gen(key_generator, frequency, duration) ==
    IF key_generator = "square" THEN square_key_gen(frequency, duration)
    ELSE sine_key_gen(frequency)

----------------------------------------------------------------------------
(* Instrument::gen_keys and MusicSequencer::gen_instrument_keys *)

\* the position (from 1) of the first pair of frequency id fid, 0 if none
RECURSIVE Position(_, _, _)
Position(frequencies_times, fid, i) ==
    IF i > Len(frequencies_times) THEN 0
    ELSE IF frequencies_times[i][1] = fid THEN i
    ELSE Position(frequencies_times, fid, i + 1)

\* the bug of keeping the duration recorded first for a frequency id
RecordNoteKeepingFirst(used, note) ==
    LET frequencies_times ==
            IF note.instrument_id \in DOMAIN used THEN used[note.instrument_id] ELSE <<>>
        id == Position(frequencies_times, note.frequency_id, 1)
    IN Insert(used, note.instrument_id,
           IF id = 0 THEN Append(frequencies_times, <<note.frequency_id, note.duration>>)
           ELSE frequencies_times)

\* the body of the loop of list_frequencies_for_instruments for one note
RecordNote(used, note) ==
    LET frequencies_times ==
            IF note.instrument_id \in DOMAIN used THEN used[note.instrument_id] ELSE <<>>
        id == Position(frequencies_times, note.frequency_id, 1)
    IN Insert(used, note.instrument_id,
           IF id = 0 THEN Append(frequencies_times, <<note.frequency_id, note.duration>>)
           ELSE [frequencies_times EXCEPT ![id] =
                    <<@[1], IF @[2] > note.duration THEN @[2] ELSE note.duration>>])

RECURSIVE ListFrequenciesFrom(_, _, _)
ListFrequenciesFrom(ns, i, used) ==
    IF i > Len(ns) THEN used
    ELSE ListFrequenciesFrom(ns, i + 1, RecordNote(used, ns[i]))

list_frequencies_for_instruments(ns) == ListFrequenciesFrom(ns, 1, EmptyMap)

get_any_key(inst) ==
    IF DOMAIN inst.keys = {} THEN Err("NoDefaultKeyGiven")
    ELSE Ok(inst.keys[CHOOSE fid \in DOMAIN inst.keys : TRUE])

\* the loop over frequency_ids_durations, from pair i; the keys inserted before a
\* failure stay in the cache
RECURSIVE GenKeysFrom(_, _, _, _)
GenKeysFrom(inst, frequency_ids_durations, i, f_lut) ==
    IF i > Len(frequency_ids_durations) THEN [out |-> Ok(<<>>), inst |-> inst]
    ELSE LET frequency_id == frequency_ids_durations[i]
             f == FrequencyLookupTable_get(f_lut, frequency_id[1])
         IN IF f.status = "err" THEN [out |-> f, inst |-> inst]
            ELSE IF inst.key_generator = "none"
            THEN [out |-> Panic("not implemented: Cannot change the pitch of a Key for now"),
                  inst |-> inst]
            ELSE GenKeysFrom(
                     [inst EXCEPT !.keys = Insert(@, frequency_id[1],
                          key_gen(inst.key_generator, f.val.v, frequency_id[2]))],
                     frequency_ids_durations, i + 1, f_lut)

\* the bug of emptying the cache before the keys are generated
gen_keys_rebuilding(inst, frequency_ids_durations, f_lut) ==
    IF inst.key_generator = "none" /\ get_any_key(inst).status = "err"
    THEN [out |-> get_any_key(inst), inst |-> inst]
    ELSE GenKeysFrom([inst EXCEPT !.keys = EmptyMap], frequency_ids_durations, 1, f_lut)

gen_keys(inst, frequency_ids_durations, f_lut) ==
    IF inst.key_generator = "none" /\ get_any_key(inst).status = "err"
    THEN [out |-> get_any_key(inst), inst |-> inst]
    ELSE GenKeysFrom(inst, frequency_ids_durations, 1, f_lut)

\* the loop over the HashMap of list_frequencies_for_instruments, its entries in
\* the order the iteration yields them; the first failure ends it
RECURSIVE GenInstrumentKeysFrom(_, _, _, _, _)
GenInstrumentKeysFrom(used, order, i, insts, f_lut) ==
    IF i > Len(order) THEN [out |-> Ok(<<>>), instruments |-> insts]
    ELSE LET instrument_id == order[i]
         IN IF instrument_id \notin DOMAIN insts
            THEN [out |-> Err("NoInstrumentForID"), instruments |-> insts]
            ELSE LET g == gen_keys(insts[instrument_id], used[instrument_id], f_lut)
                     after == [insts EXCEPT ![instrument_id] = g.inst]
                 IN IF g.out.status # "ok" THEN [out |-> g.out, instruments |-> after]
                    ELSE GenInstrumentKeysFrom(used, order, i + 1, after, f_lut)

\* the orders in which a HashMap of these keys can be iterated
IterationOrders(ids) ==
    {o \in [1 .. Cardinality(ids) -> ids] : \A i, j \in DOMAIN o : i # j => o[i] # o[j]}

gen_instrument_keys(ns, insts, f_lut, order) ==
    GenInstrumentKeysFrom(list_frequencies_for_instruments(ns), order, 1, insts, f_lut)

----------------------------------------------------------------------------
(* MusicSequencer::render *)

\* the bug of mixing without dividing by the notes played at once
AmplitudeUndivided(max_notes_at_once) == 1

\* the denominator of amplitude_per_note = f32::from(max_notes_at_once as u16).recip()
AmplitudeDen(max_notes_at_once) == max_notes_at_once % 65536

\* the while loop that adds to_add into out_pcm_data from frame_id_out on; the
\* samples are numerators over VelDen * AmplitudeDen
AddFrames(out_pcm_data, to_add, frame_id_out, on_velocity) ==
    [f \in 1 .. Len(out_pcm_data) |->
        IF f - frame_id_out \in 1 .. Len(to_add)
        THEN [sample_id \in 1 .. NbChannels |->
                 out_pcm_data[f][sample_id] + to_add[f - frame_id_out][sample_id] * on_velocity]
        ELSE out_pcm_data[f]]

\* the loop over the notes, from note i
RECURSIVE MixNotesFrom(_, _, _, _)
MixNotesFrom(ns, i, insts, out_pcm_data) ==
    IF i > Len(ns) THEN Ok(out_pcm_data)
    ELSE LET note == ns[i] IN
         IF note.instrument_id \notin DOMAIN insts THEN Err("NoInstrumentForID")
         ELSE LET to_add == gen_sound(insts[note.instrument_id], note.frequency_id,
                                      Num(note.duration))
                  frame_id_out == FramesRound(note.start_at)
              IN IF to_add.status # "ok" THEN to_add
                 ELSE IF Len(to_add.val) > 0
                         /\ frame_id_out + Len(to_add.val) > Len(out_pcm_data)
                 THEN Panic("index out of bounds: out_pcm_data[frame_id_out]")
                 ELSE MixNotesFrom(ns, i + 1, insts,
                          AddFrames(out_pcm_data, to_add.val, frame_id_out, note.on_velocity))

\* the PCM returned
RenderedPCM(frames, max_notes_at_once) ==
    [parameters |-> [nb_channels |-> NbChannels, sample_rate |-> SampleRate],
     loop_info |-> "None",
     frames |-> frames,
     sample_den |-> VelDen * AmplitudeDen(max_notes_at_once)]

\* render with the key generation iterating in the given order: the outcome, and
\* the notes and the instruments as the call leaves them
render(ns, insts, f_lut, order) ==
    LET g == gen_instrument_keys(ns, insts, f_lut, order) IN
    IF g.out.status # "ok" THEN [out |-> g.out, notes |-> ns, instruments |-> g.instruments]
    ELSE LET m == calc_max_notes_at_once(ns)
             duration == calc_music_duration(m.notes)
             nb_frames == FramesTrunc(duration)
             out_pcm_data == [f \in 1 .. nb_frames |-> FrameOf(0)]
             mixed == MixNotesFrom(m.notes, 1, g.instruments, out_pcm_data)
         IN [out |-> IF mixed.status = "ok" THEN Ok(RenderedPCM(mixed.val, m.count))
                     ELSE mixed,
             notes |-> m.notes,
             instruments |-> g.instruments]

----------------------------------------------------------------------------
(* HardwareSequenceHelper and SoftwareSequenceHelper *)

\* HashMap::remove
Remove(m, k) == [x \in DOMAIN m \ {k} |-> m[x]]

HardwarePartialNote(start_at, on_velocity) ==
    [start_at |-> start_at, on_velocity |-> on_velocity]

\* the bug of inserting the partial note whether or not the pair is sounding
start_note_overwriting(ci, time, frequency_id, on_velocity, instrument_id) ==
    LET entered == IF instrument_id \in DOMAIN ci THEN ci
                   ELSE Insert(ci, instrument_id, EmptyMap)
    IN [entered EXCEPT ![instrument_id] =
           Insert(@, frequency_id, HardwarePartialNote(time, on_velocity))]

\* current_instruments after start_note_with_flut at the helper time given
start_note_with_flut(ci, time, frequency_id, on_velocity, instrument_id) ==
    LET entered == IF instrument_id \in DOMAIN ci THEN ci
                   ELSE Insert(ci, instrument_id, EmptyMap)
        freq_hashmap == entered[instrument_id]
    IN IF frequency_id \notin DOMAIN freq_hashmap
       THEN [entered EXCEPT ![instrument_id] =
                Insert(freq_hashmap, frequency_id, HardwarePartialNote(time, on_velocity))]
       ELSE entered

\* stop_note_with_flut at the helper time given: the outcome, and current_instruments
\* and the notes as the call leaves them
stop_note_with_flut(ci, ns, time, frequency_id, off_velocity, instrument_id) ==
    IF instrument_id \notin DOMAIN ci
    THEN [out |-> Panic("No instrument for ID"), current_instruments |-> ci, notes |-> ns]
    ELSE LET i == ci[instrument_id] IN
         IF frequency_id \in DOMAIN i
         THEN LET pn == i[frequency_id]
              IN [out |-> Ok(<<>>),
                  current_instruments |->
                      [ci EXCEPT ![instrument_id] = Remove(i, frequency_id)],
                  notes |-> add_note(ns,
                      [Note(pn.start_at, time, time - pn.start_at, frequency_id,
                            pn.on_velocity, instrument_id)
                          EXCEPT !.off_velocity = off_velocity])]
         ELSE [out |-> Ok(<<>>), current_instruments |-> ci, notes |-> ns]

\* the notes after SoftwareSequenceHelper::new_note_with_flut at the helper time given
new_note_with_flut(ns, time, frequency_id, duration, on_velocity, off_velocity, instrument_id) ==
    add_note(ns,
        [Note(time, time + duration, duration, frequency_id, on_velocity, instrument_id)
            EXCEPT !.off_velocity = off_velocity])

----------------------------------------------------------------------------
(* The state after construction and the calls, shared by the specifications *)

\* Instrument { keys, key_generator, loopable }; a Key is its audio.frames
Instrument(keys, key_generator, loopable) ==
    [keys |-> keys, key_generator |-> key_generator, loopable |-> loopable]

\* Sequence::new(), FrequencyLookupTable::new(), an empty InstrumentTable
InitEmpty ==
    /\ notes = <<>>
    /\ lut = EmptyMap
    /\ instruments = EmptyMap
    /\ current_instruments = EmptyMap
    /\ at_time = 0
    /\ ret = NoCall

\* sequence.add_note(n), n drawn from NS, up to max notes
AddNote(NS, max) ==
    /\ Len(notes) < max
    /\ \E n \in NS : notes' = add_note(notes, n)
    /\ ret' = NoCall
    /\ UNCHANGED <<lut, instruments, helper_vars>>

SortByTime ==
    /\ notes' = sort_by_time(notes)
    /\ ret' = Call("Sequence::sort_by_time", notes, Ok(<<>>))
    /\ UNCHANGED <<lut, instruments, helper_vars>>

CalcMaxNotesAtOnce ==
    LET r == calc_max_notes_at_once(notes)
    IN /\ notes' = r.notes
       /\ ret' = Call("Sequence::calc_max_notes_at_once", notes, Ok(r.count))
       /\ UNCHANGED <<lut, instruments, helper_vars>>

CalcMusicDuration ==
    /\ ret' = Call("Sequence::calc_music_duration", notes, Ok(calc_music_duration(notes)))
    /\ UNCHANGED <<notes, lut, instruments, helper_vars>>

\* frequency_lut.lut.insert(id, v): the table is a public field
LutInsert(ids, VS) ==
    /\ \E id \in ids, v \in VS : lut' = Insert(lut, id, v)
    /\ ret' = NoCall
    /\ UNCHANGED <<notes, instruments, helper_vars>>

FlutGet(ids) ==
    /\ \E id \in ids :
          ret' = Call("FrequencyLookupTable::get", [id |-> id],
                      FrequencyLookupTable_get(lut, id))
    /\ UNCHANGED <<notes, lut, instruments, helper_vars>>

\* instrument.keys.insert(frequency_id, key): the cache is a public field
KeyInsert(fids, KS) ==
    /\ \E iid \in DOMAIN instruments, fid \in fids, k \in KS :
          instruments' = [instruments EXCEPT ![iid].keys = Insert(@, fid, k)]
    /\ ret' = NoCall
    /\ UNCHANGED <<notes, lut, helper_vars>>

GenSound(fids, DS) ==
    /\ \E iid \in DOMAIN instruments, fid \in fids, d \in DS :
          ret' = Call("Instrument::gen_sound",
                      [instrument_id |-> iid, frequency_id |-> fid, duration |-> d],
                      gen_sound(instruments[iid], fid, d))
    /\ UNCHANGED <<notes, lut, instruments, helper_vars>>

ListFrequenciesForInstruments ==
    /\ ret' = Call("Sequence::list_frequencies_for_instruments", notes,
                   Ok(list_frequencies_for_instruments(notes)))
    /\ UNCHANGED <<notes, lut, instruments, helper_vars>>

\* sequencer.sequence = Sequence::new(): the sequence is a public field
NewSequence ==
    /\ notes # <<>>
    /\ notes' = <<>>
    /\ ret' = NoCall
    /\ UNCHANGED <<lut, instruments, helper_vars>>

\* sequencer.gen_instrument_keys()
GenInstrumentKeys ==
    \E order \in IterationOrders(DOMAIN list_frequencies_for_instruments(notes)) :
        LET g == gen_instrument_keys(notes, instruments, lut, order)
        IN /\ instruments' = g.instruments
           /\ ret' = Call("MusicSequencer::gen_instrument_keys", notes, g.out)
           /\ UNCHANGED <<notes, lut, helper_vars>>

\* sequencer.render()
Render ==
    \E order \in IterationOrders(DOMAIN list_frequencies_for_instruments(notes)) :
        LET r == render(notes, instruments, lut, order)
        IN /\ notes' = r.notes
           /\ instruments' = r.instruments
           /\ ret' = Call("MusicSequencer::render", notes, r.out)
           /\ UNCHANGED <<lut, helper_vars>>

\* helper.time_forward(time_passed), up to the time max
TimeForward(TS, max) ==
    /\ \E time_passed \in TS :
          /\ at_time + time_passed <= max
          /\ at_time' = at_time + time_passed
    /\ ret' = NoCall
    /\ UNCHANGED <<notes, lut, instruments, current_instruments>>

\* helper.reset_time()
ResetTime ==
    /\ at_time' = 0
    /\ ret' = NoCall
    /\ UNCHANGED <<notes, lut, instruments, current_instruments>>

\* helper.start_note_with_flut(frequency_id, on_velocity, instrument_id), the two
\* ids drawn as a pair <<frequency_id, instrument_id>>
StartNoteWithFlut(pairs, VS) ==
    /\ \E pair \in pairs, on_velocity \in VS :
          LET frequency_id == pair[1]
              instrument_id == pair[2]
          IN
          current_instruments'
              = start_note_with_flut(current_instruments, at_time, frequency_id,
                                     on_velocity, instrument_id)
    /\ ret' = NoCall
    /\ UNCHANGED <<notes, lut, instruments, at_time>>

\* helper.stop_note_with_flut(frequency_id, off_velocity, instrument_id), while the
\* sequence has fewer than max notes
StopNoteWithFlut(pairs, VS, max) ==
    /\ Len(notes) < max
    /\ \E pair \in pairs, off_velocity \in VS :
          LET frequency_id == pair[1]
              instrument_id == pair[2]
              r == stop_note_with_flut(current_instruments, notes, at_time, frequency_id,
                                       off_velocity, instrument_id)
          IN /\ current_instruments' = r.current_instruments
             /\ notes' = r.notes
             /\ ret' = Call("HardwareSequenceHelper::stop_note_with_flut",
                            [frequency_id |-> frequency_id,
                             instrument_id |-> instrument_id],
                            r.out)
    /\ UNCHANGED <<lut, instruments, at_time>>

\* helper.new_note_with_flut(frequency_id, duration, on_velocity, off_velocity,
\* instrument_id), while the sequence has fewer than max notes
NewNoteWithFlut(fids, DS, VS, iids, max) ==
    /\ Len(notes) < max
    /\ \E frequency_id \in fids, duration \in DS, on_velocity \in VS,
          instrument_id \in iids :
          notes' = new_note_with_flut(notes, at_time, frequency_id, duration,
                                      on_velocity, 0, instrument_id)
    /\ ret' = NoCall
    /\ UNCHANGED <<lut, instruments, helper_vars>>

----------------------------------------------------------------------------
(* SpecFlut: a lookup table that is filled, overwritten and read *)

\* the f64 values stored: zero, a negative, two usable frequencies, and the special ones
LutValues == {Num(0), Num(-1), Num(1), Num(8), NaN, PosInf, NegInf, Subnormal}

LutIds == 0 .. MaxFreqId

NextFlut ==
    \/ LutInsert(LutIds, LutValues)
    \/ FlutGet(0 .. MaxFreqId + 1)

SpecFlut == InitEmpty /\ [][NextFlut]_vars

----------------------------------------------------------------------------
(* SpecSound: one instrument whose key cache is filled and played *)

\* Frame { samples }: one sample for each channel
FrameValues == [1 .. NbChannels -> {-1, 1}]

\* the keys cached: every sequence of up to MaxKeyLen frames
CachedKeys == UNION {[1 .. n -> FrameValues] : n \in 0 .. MaxKeyLen}

\* the durations asked for, usable or not
SoundDurations == {Num(d) : d \in -1 .. MaxSoundDur} \cup {NaN, PosInf, Subnormal}

InitSound ==
    /\ notes = <<>>
    /\ lut = EmptyMap
    /\ \E loopable \in BOOLEAN :
          instruments = (0 :> Instrument(EmptyMap, "none", loopable))
    /\ current_instruments = EmptyMap
    /\ at_time = 0
    /\ ret = NoCall

NextSound ==
    \/ KeyInsert({0}, CachedKeys)
    \/ GenSound({0, 1}, SoundDurations)

SpecSound == InitSound /\ [][NextSound]_vars

----------------------------------------------------------------------------
(* SpecSeq: a sequence that is filled and analysed *)

\* notes by start and end, the duration their difference; end before start included
SeqNotes ==
    {Note(s, e, e - s, 0, 1, 0) : s \in 0 .. MaxSeqTime, e \in 0 .. MaxSeqTime}

NextSeq ==
    \/ AddNote(SeqNotes, MaxNotes)
    \/ SortByTime
    \/ CalcMaxNotesAtOnce
    \/ CalcMusicDuration

SpecSeq == InitEmpty /\ [][NextSeq]_vars

----------------------------------------------------------------------------
(* Spec: a sequencer whose sequence is filled and rendered *)

\* a key cached before any generation, the seed of the pitch changer
SeedKey == <<FrameOf(1), FrameOf(-1)>>

\* the instruments: each generator, or none with or without a seed key; loopable or not
InstrumentKinds ==
    {Instrument(EmptyMap, g, l) : g \in {"square", "sine", "none"}, l \in BOOLEAN}
    \cup {Instrument((0 :> SeedKey), "none", l) : l \in BOOLEAN}

\* the lookup tables: id 0 a usable frequency, below the sample rate with id 1
\* absent, or above it with id 1 mapped to 0.0
LutTables == {(0 :> Num(1)), (0 :> Num(2 * SampleRate)) @@ (1 :> Num(0))}

\* the notes: of one frame, on the frame or half a frame late, or of no duration;
\* of a frequency id and an instrument id that some tables lack
RenderNotes ==
    {Note(s, s + 2, 2, f, VelDen, i) : s \in {0, 1}, f \in {0, 1}, i \in {0, 1, 2}}
    \cup {Note(0, 0, 0, f, VelDen, i) : f \in {0, 1}, i \in {0, 1, 2}}

Init ==
    /\ notes = <<>>
    /\ lut \in LutTables
    /\ \E k \in InstrumentKinds :
          instruments = (0 :> k) @@ (1 :> Instrument(EmptyMap, "sine", FALSE))
    /\ current_instruments = EmptyMap
    /\ at_time = 0
    /\ ret = NoCall

Next ==
    \/ AddNote(RenderNotes, MaxRenderNotes)
    \/ GenInstrumentKeys
    \/ Render

Spec == Init /\ [][Next]_vars

----------------------------------------------------------------------------
(* SpecMix: a sequencer with working instruments whose notes overlap *)

\* the notes: starting on a frame or half a frame late, of one or two frames, of
\* half or full velocity, on either instrument; end_at is start_at + duration, or
\* for a note of two frames one frame short of it (a note that is not well formed)
MixNotes ==
    {Note(s, s + d - e, d, 0, v, i) :
        s \in 0 .. 2, d \in {2, 4}, e \in {0, 2}, v \in {1, VelDen}, i \in {0, 1}}
    \ {Note(s, s, 2, 0, v, i) : s \in 0 .. 2, v \in {1, VelDen}, i \in {0, 1}}

InitMix ==
    /\ notes = <<>>
    /\ lut = (0 :> Num(1))
    /\ \E l \in BOOLEAN :
          instruments = (0 :> Instrument(EmptyMap, "square", FALSE))
                        @@ (1 :> Instrument(EmptyMap, "sine", l))
    /\ current_instruments = EmptyMap
    /\ at_time = 0
    /\ ret = NoCall

NextMix ==
    \/ AddNote(MixNotes, MaxRenderNotes)
    \/ Render

SpecMix == InitMix /\ [][NextMix]_vars

----------------------------------------------------------------------------
(* SpecList: a sequence that is filled and whose frequencies are listed *)

\* the notes: of every duration up to MaxSeqTime, of either frequency id, on either
\* instrument
ListNotes ==
    {Note(0, d, d, f, VelDen, i) : d \in 0 .. MaxSeqTime, f \in {0, 1}, i \in {0, 1}}

NextList ==
    \/ AddNote(ListNotes, MaxNotes)
    \/ ListFrequenciesForInstruments

SpecList == InitEmpty /\ [][NextList]_vars

----------------------------------------------------------------------------
(* SpecKeys: a sequencer whose sequence is rendered, replaced and rendered again *)

\* two usable frequencies
KeysLut == (0 :> Num(1)) @@ (1 :> Num(2))

\* the notes: from the start, of one or two frames, of either frequency id, on
\* either instrument
KeysNotes == {Note(0, d, d, f, VelDen, i) : d \in {2, 4}, f \in {0, 1}, i \in {0, 1}}

InitKeys ==
    /\ notes = <<>>
    /\ lut = KeysLut
    /\ instruments = (0 :> Instrument(EmptyMap, "square", FALSE))
                      @@ (1 :> Instrument(EmptyMap, "sine", FALSE))
    /\ current_instruments = EmptyMap
    /\ at_time = 0
    /\ ret = NoCall

NextKeys ==
    \/ AddNote(KeysNotes, MaxRenderNotes)
    \/ NewSequence
    \/ GenInstrumentKeys
    \/ Render

SpecKeys == InitKeys /\ [][NextKeys]_vars

----------------------------------------------------------------------------
(* SpecHardware: a HardwareSequenceHelper fed note-on and note-off events *)

\* the frequency ids and the instrument ids of the software helper's notes
HelperIds == {0, 1}

\* the pairs <<frequency_id, instrument_id>> of the events: two frequency ids of
\* one instrument, and one of them on a second instrument
HelperPairs == {<<0, 0>>, <<1, 0>>, <<0, 1>>}

\* the times passed between events, in units of 1 / TimeDen seconds
TimesPassed == {1, 2}

\* after HardwareSequenceHelper::new_with_flut nothing sounds and the time is 0
NextHardware ==
    \/ TimeForward(TimesPassed, MaxHelperTime)
    \/ StartNoteWithFlut(HelperPairs, {VelDen})
    \/ StopNoteWithFlut(HelperPairs, {0}, MaxHelperNotes)

SpecHardware == InitEmpty /\ [][NextHardware]_vars

----------------------------------------------------------------------------
(* SpecHardwareReset: the same helper, whose time is also reset *)

NextHardwareReset ==
    \/ TimeForward(TimesPassed, MaxHelperTime)
    \/ ResetTime
    \/ StartNoteWithFlut(HelperPairs, {VelDen})
    \/ StopNoteWithFlut(HelperPairs, {0}, MaxHelperNotes)

SpecHardwareReset == InitEmpty /\ [][NextHardwareReset]_vars

----------------------------------------------------------------------------
(* SpecSoftware: a SoftwareSequenceHelper given whole notes *)

NextSoftware ==
    \/ TimeForward(TimesPassed, MaxHelperTime)
    \/ ResetTime
    \/ NewNoteWithFlut(HelperIds, 0 .. MaxHelperTime, {VelDen}, HelperIds, MaxHelperNotes)

SpecSoftware == InitEmpty /\ [][NextSoftware]_vars

----------------------------------------------------------------------------
(* Claims about Instrument::gen_sound, under SpecSound *)

IsGenSound == ret.op = "Instrument::gen_sound"

\* the instrument, the cached frames and the duration of the call recorded in ret
SoundInst == instruments[ret.arg.instrument_id]
SoundCached == ret.arg.frequency_id \in DOMAIN SoundInst.keys
SoundFrames == SoundInst.keys[ret.arg.frequency_id]

\* a positive, finite, normal number
PositiveFiniteNormal(x) == x.cls = "finite" /\ x.v > 0

\* the largest whole number of frames that fit in t / TimeDen seconds
WholeFrames(t) ==
    CHOOSE n \in 0 .. t * SampleRate :
        n * TimeDen <= t * SampleRate /\ (n + 1) * TimeDen > t * SampleRate

\* C1: for a loopable instrument whose cached key has L >= 1 frames, gen_sound with
\* a valid duration returns a sound whose frame at every position k is the key's
\* frame k mod L.
C1_LoopingFidelity ==
    (IsGenSound /\ SoundInst.loopable /\ SoundCached /\ Len(SoundFrames) >= 1
        /\ PositiveFiniteNormal(ret.arg.duration))
    => /\ ret.out.status = "ok"
       /\ \A k \in 0 .. Len(ret.out.val) - 1 :
             ret.out.val[k + 1] = SoundFrames[(k % Len(SoundFrames)) + 1]

\* C2: for a non-loopable instrument whose cached key has L >= 1 frames, gen_sound
\* with a valid duration returns a sound whose frame at position k is the key's
\* frame k for k < L and the key's last frame for every k >= L.
C2_NonLoopableHold ==
    (IsGenSound /\ ~SoundInst.loopable /\ SoundCached /\ Len(SoundFrames) >= 1
        /\ PositiveFiniteNormal(ret.arg.duration))
    => /\ ret.out.status = "ok"
       /\ \A k \in 0 .. Len(ret.out.val) - 1 :
             ret.out.val[k + 1] =
                 IF k < Len(SoundFrames) THEN SoundFrames[k + 1]
                 ELSE SoundFrames[Len(SoundFrames)]

\* C2's case: a non-loopable sound longer than its key, whose last frame is not its first
C2_Witness ==
    /\ IsGenSound /\ ~SoundInst.loopable /\ SoundCached
    /\ ret.out.status = "ok"
    /\ Len(SoundFrames) >= 2
    /\ Len(ret.out.val) > Len(SoundFrames) + 1
    /\ SoundFrames[Len(SoundFrames)] # SoundFrames[1]

\* C3: whenever the key is cached and the duration is strictly positive and finite,
\* gen_sound succeeds and returns exactly trunc(duration * sample_rate) frames,
\* loopable or not, whatever the length of the cached key.  Stated here on the
\* keys of at least one frame and the normal durations only, where it already fails.
C3_SucceedsWithTruncFrames ==
    (IsGenSound /\ SoundCached /\ Len(SoundFrames) >= 1
        /\ PositiveFiniteNormal(ret.arg.duration))
    => /\ ret.out.status = "ok"
       /\ Len(ret.out.val) = WholeFrames(ret.arg.duration.v)

----------------------------------------------------------------------------
(* Claims about the sequence analysis, under SpecSeq *)

IsCalcMax == ret.op = "Sequence::calc_max_notes_at_once"
IsCalcDuration == ret.op = "Sequence::calc_music_duration"

\* the notes of the sequence when the call recorded in ret was made
ArgNotes == ret.arg

SameStartAndEnd(ns) ==
    \A i, j \in 1 .. Len(ns) :
        ns[i].start_at = ns[j].start_at /\ ns[i].end_at = ns[j].end_at

EndsAfterStart(ns) == \A i \in 1 .. Len(ns) : ns[i].end_at > ns[i].start_at

\* the notes sounding at instant t
SoundingAt(ns, t) == {i \in 1 .. Len(ns) : ns[i].start_at <= t /\ t < ns[i].end_at}

\* the instants at which the set of sounding notes can change: the notes sounding
\* at any other instant are those sounding at the latest of these before it
Instants(ns) == {ns[i].start_at : i \in 1 .. Len(ns)} \cup {ns[i].end_at : i \in 1 .. Len(ns)}

\* the most notes sounding at one instant
MaxSounding(ns) ==
    CHOOSE m \in 0 .. Len(ns) :
        /\ \A t \in Instants(ns) : Cardinality(SoundingAt(ns, t)) <= m
        /\ \/ \E t \in Instants(ns) : Cardinality(SoundingAt(ns, t)) = m
           \/ m = 0

NoTwoOverlap(ns) ==
    \A i, j \in 1 .. Len(ns) :
        i # j => (ns[i].end_at <= ns[j].start_at \/ ns[j].end_at <= ns[i].start_at)

\* C4 as stated: for N >= 1 notes that all share the same start time and the same
\* end time, calc_max_notes_at_once returns N.
C4_SameTimesGiveN_Original ==
    (IsCalcMax /\ Len(ArgNotes) >= 1 /\ SameStartAndEnd(ArgNotes))
    => ret.out.val = Len(ArgNotes)

\* C4 as amended: for N >= 1 notes that all share the same start time and the same
\* end time, the end after the start, calc_max_notes_at_once returns N.
C4_SameTimesGiveN ==
    (IsCalcMax /\ Len(ArgNotes) >= 1 /\ SameStartAndEnd(ArgNotes)
        /\ EndsAfterStart(ArgNotes))
    => ret.out.val = Len(ArgNotes)

\* C4's case: MaxNotes notes of one same non-empty interval were counted
C4_Witness ==
    /\ IsCalcMax /\ Len(ArgNotes) = MaxNotes
    /\ SameStartAndEnd(ArgNotes) /\ EndsAfterStart(ArgNotes)
    /\ ret.out.val = MaxNotes

\* C5: calc_max_notes_at_once returns 0 for an empty sequence; for a non-empty
\* sequence it returns at least 1, and when every note ends after it starts, in
\* any input order, the most notes n with start_at <= t < end_at over all
\* instants t, which is 1 when no two notes overlap.
C5_MaxOverInstants ==
    IsCalcMax =>
        /\ ArgNotes = <<>> => ret.out.val = 0
        /\ ArgNotes # <<>> => ret.out.val >= 1
        /\ (ArgNotes # <<>> /\ EndsAfterStart(ArgNotes))
              => ret.out.val = MaxSounding(ArgNotes)
        /\ (ArgNotes # <<>> /\ EndsAfterStart(ArgNotes) /\ NoTwoOverlap(ArgNotes))
              => ret.out.val = 1

\* C5's case: three notes given out of order, of which two at most sound at once
C5_Witness ==
    /\ IsCalcMax /\ Len(ArgNotes) = 3 /\ EndsAfterStart(ArgNotes)
    /\ ArgNotes[1].start_at > ArgNotes[2].start_at
    /\ ret.out.val = 2

\* the greatest end_at of the notes, 0 when there are none
MaxEndAt(ns) ==
    IF ns = <<>> THEN 0
    ELSE CHOOSE e \in {ns[i].end_at : i \in 1 .. Len(ns)} :
             \A i \in 1 .. Len(ns) : ns[i].end_at <= e

\* C6: calc_music_duration returns the maximum end_at over all notes of the
\* sequence, and 0 for an empty sequence.
C6_MusicDurationIsMaxEnd ==
    IsCalcDuration => ret.out.val = MaxEndAt(ArgNotes)

\* C6's case: the note that ends last is neither the first nor the last of the sequence
C6_Witness ==
    /\ IsCalcDuration /\ Len(ArgNotes) = 3
    /\ ArgNotes[2].end_at > ArgNotes[1].end_at
    /\ ArgNotes[2].end_at > ArgNotes[3].end_at
    /\ ret.out.val = ArgNotes[2].end_at

----------------------------------------------------------------------------
(* Claim about FrequencyLookupTable::get, under SpecFlut *)

IsFlutGet == ret.op = "FrequencyLookupTable::get"

\* C7: get fails with the unknown-frequency-id error when the id is absent, fails
\* with the invalid-time-or-frequency error when the id maps to a value that is
\* not a positive, finite, normal number, and returns the stored value otherwise,
\* whatever was looked up or stored before.
C7_GetChecksAtReadTime ==
    IsFlutGet =>
        LET id == ret.arg.id IN
        /\ id \notin DOMAIN lut => ret.out = Err("NoFrequencyForID")
        /\ (id \in DOMAIN lut /\ ~PositiveFiniteNormal(lut[id]))
              => ret.out = Err("ImpossibleTimeOrFrequency")
        /\ (id \in DOMAIN lut /\ PositiveFiniteNormal(lut[id])) => ret.out = Ok(lut[id])

\* C7's case: a lookup of an id that maps to infinity was refused
C7_Witness ==
    /\ IsFlutGet /\ ret.arg.id \in DOMAIN lut
    /\ lut[ret.arg.id] = PosInf
    /\ ret.out = Err("ImpossibleTimeOrFrequency")

----------------------------------------------------------------------------
(* Claims about MusicSequencer::render, under Spec and SpecMix *)

IsRender == ret.op = "MusicSequencer::render"

AllHaveGenerators == \A iid \in DOMAIN instruments : instruments[iid].key_generator # "none"

\* C8: render either completes and returns the whole buffer or returns the first
\* failure as an error, with no partial output; there is no third outcome.  Stated
\* here on the instrument tables whose instruments all have a key generator, where
\* it already fails.
C8_CompletesOrReturnsError ==
    (IsRender /\ AllHaveGenerators)
    => \/ ret.out.status = "ok"
       \/ ret.out.status = "err" /\ ret.out.val = <<>>

\* the frame nearest to t / TimeDen seconds, the later one at equal distance
NearestFrame(t) ==
    CHOOSE n \in 0 .. t * SampleRate + 1 :
        /\ 2 * n * TimeDen - TimeDen <= 2 * t * SampleRate
        /\ 2 * t * SampleRate < 2 * n * TimeDen + TimeDen

\* the sound gen_sound gives for the note n with the keys the render generated
SoundOf(n) == gen_sound(instruments[n.instrument_id], n.frequency_id, Num(n.duration)).val

\* the sample the note n brings to frame f (from 1) and channel c, before scaling
SampleOf(n, f, c) ==
    LET at == f - NearestFrame(n.start_at)
    IN IF at \in 1 .. Len(SoundOf(n)) THEN SoundOf(n)[at][c] ELSE 0

\* the sum over the notes ns of their samples at f and c times their velocity numerators
RECURSIVE SumOfNotes(_, _, _)
SumOfNotes(ns, f, c) ==
    IF ns = <<>> THEN 0
    ELSE SampleOf(Head(ns), f, c) * Head(ns).on_velocity + SumOfNotes(Tail(ns), f, c)

\* C9: when render succeeds, every sample of the buffer at frame f and channel c is
\* the sum over all notes n, in whatever order they were given, of the sample at
\* frame f - round(start_at_n * sample_rate) of the sound of n (0 outside it) scaled
\* by on_velocity_n / max(1, calc_max_notes_at_once()).  The buffer's sample is
\* frames[f][c] / sample_den and on_velocity is its numerator over VelDen.
C9_MixIsScaledSum ==
    (IsRender /\ ret.out.status = "ok") =>
        LET pcm == ret.out.val
            at_once == Max2(1, calc_max_notes_at_once(ArgNotes).count)
        IN /\ Len(pcm.frames) > 0 => pcm.sample_den > 0
           /\ \A f \in 1 .. Len(pcm.frames), c \in 1 .. NbChannels :
                 pcm.frames[f][c] * (VelDen * at_once)
                     = pcm.sample_den * SumOfNotes(ArgNotes, f, c)

\* C9's case: two notes given out of order, of different velocities, one of them
\* half a frame late, that both sound in a frame of the buffer
C9_Witness ==
    /\ IsRender /\ ret.out.status = "ok" /\ Len(ArgNotes) = 2
    /\ ArgNotes[1].start_at > ArgNotes[2].start_at
    /\ ArgNotes[1].start_at % 2 = 1
    /\ ArgNotes[1].on_velocity # ArgNotes[2].on_velocity
    /\ \E f \in 1 .. Len(ret.out.val.frames) :
          /\ SampleOf(ArgNotes[1], f, 1) # 0
          /\ SampleOf(ArgNotes[2], f, 1) # 0

WellFormed(ns) == \A i \in 1 .. Len(ns) : ns[i].end_at = ns[i].start_at + ns[i].duration

Abs(x) == IF x < 0 THEN -x ELSE x

\* no sample of the buffer has a magnitude above 1
NoClipping(pcm) ==
    \A f \in 1 .. Len(pcm.frames), c \in 1 .. NbChannels :
        Abs(pcm.frames[f][c]) <= pcm.sample_den

\* two notes with the same start and end, on different instruments, of velocity 1
FullyOverlapping(ns) ==
    /\ Len(ns) = 2
    /\ ns[1].start_at = ns[2].start_at /\ ns[1].end_at = ns[2].end_at
    /\ ns[1].instrument_id # ns[2].instrument_id
    /\ ns[1].on_velocity = VelDen /\ ns[2].on_velocity = VelDen

\* every sample is the sum of the two notes' waveforms each scaled by 0.5
HalfSum(pcm, ns) ==
    \A f \in 1 .. Len(pcm.frames), c \in 1 .. NbChannels :
        2 * pcm.frames[f][c]
            = pcm.sample_den * (SampleOf(ns[1], f, c) + SampleOf(ns[2], f, c))

\* C10 as stated: for every sequence whose notes have on_velocity in [0,1] and whose
\* keys have samples in [-1,1], every sample of the rendered buffer has magnitude
\* <= 1, and two fully overlapping notes of velocity 1 on different instruments
\* give the sum of the two waveforms each scaled by 0.5.
C10_NoClipping_Original ==
    (IsRender /\ ret.out.status = "ok") =>
        /\ NoClipping(ret.out.val)
        /\ FullyOverlapping(ArgNotes) => HalfSum(ret.out.val, ArgNotes)

\* C10 as amended: the same, for the sequences whose notes all have
\* end_at = start_at + duration.
C10_NoClipping ==
    (IsRender /\ ret.out.status = "ok" /\ WellFormed(ArgNotes)) =>
        /\ NoClipping(ret.out.val)
        /\ FullyOverlapping(ArgNotes) => HalfSum(ret.out.val, ArgNotes)

\* C10's case: two fully overlapping well-formed notes of velocity 1 on the two
\* instruments, whose waveforms add up to magnitude 1 in some frame
C10_Witness ==
    /\ IsRender /\ ret.out.status = "ok"
    /\ WellFormed(ArgNotes) /\ FullyOverlapping(ArgNotes)
    /\ \E f \in 1 .. Len(ret.out.val.frames) :
          Abs(ret.out.val.frames[f][1]) = ret.out.val.sample_den

----------------------------------------------------------------------------
(* Claims about the buffer render returns and the mixing index, under SpecMix *)

\* C11: when render succeeds, the returned buffer has exactly
\* trunc(calc_music_duration() * sample_rate) frames, every frame holds exactly
\* nb_channels samples, the buffer is tagged with the sequencer's sample rate and
\* channel count, and no loop metadata is attached.
C11_BufferShapeAndTags ==
    (IsRender /\ ret.out.status = "ok") =>
        LET pcm == ret.out.val IN
        /\ Len(pcm.frames) = WholeFrames(MaxEndAt(ArgNotes))
        /\ \A f \in 1 .. Len(pcm.frames) : DOMAIN pcm.frames[f] = 1 .. NbChannels
        /\ pcm.parameters.sample_rate = SampleRate
        /\ pcm.parameters.nb_channels = NbChannels
        /\ pcm.loop_info = "None"

\* C11's case: a render of two notes, the later ending last, gave three frames or more
C11_Witness ==
    /\ IsRender /\ ret.out.status = "ok" /\ Len(ArgNotes) = 2
    /\ ArgNotes[1].end_at > ArgNotes[2].end_at
    /\ Len(ret.out.val.frames) >= 3
    /\ Len(ret.out.val.frames) = WholeFrames(ArgNotes[1].end_at)

PositiveDurations(ns) == \A i \in 1 .. Len(ns) : ns[i].duration > 0

\* C16: during render every frame a note contributes is accumulated at an index
\* inside the output buffer: for every note of a sequence with positive durations
\* and end_at = start_at + duration,
\* round(start_at * sample_rate) + trunc(duration * sample_rate)
\* <= trunc(calc_music_duration() * sample_rate), so the mixing loop never indexes
\* past the end of the buffer.
C16_MixIndexInBounds ==
    (IsRender /\ WellFormed(ArgNotes) /\ PositiveDurations(ArgNotes))
    => /\ \A i \in 1 .. Len(ArgNotes) :
             NearestFrame(ArgNotes[i].start_at) + WholeFrames(ArgNotes[i].duration)
                 <= WholeFrames(MaxEndAt(ArgNotes))
       /\ ret.out.status # "panic"

----------------------------------------------------------------------------
(* Claims about the key generation, under Spec and SpecKeys *)

IsGenKeys == ret.op = "MusicSequencer::gen_instrument_keys"

\* every note is played by an instrument that has no key generator and a cached
\* key, at a frequency id the lookup table resolves
PitchChangerAsked(ns) ==
    /\ ns # <<>>
    /\ \A i \in 1 .. Len(ns) :
          /\ ns[i].instrument_id \in DOMAIN instruments
          /\ instruments[ns[i].instrument_id].key_generator = "none"
          /\ DOMAIN instruments[ns[i].instrument_id].keys # {}
          /\ ns[i].frequency_id \in DOMAIN lut
          /\ PositiveFiniteNormal(lut[ns[i].frequency_id])

\* C12: gen_keys on an instrument that has no key generator but at least one
\* cached key, asked for at least one resolvable frequency id, surfaces an
\* 'unsupported' failure as an error result to its caller, and so does render; it
\* neither produces a key nor leaves the caller without an error value.
C12_UnsupportedIsAnError ==
    ((IsGenKeys \/ IsRender) /\ PitchChangerAsked(ArgNotes))
    => /\ ret.out.status = "err"
       /\ \A i \in 1 .. Len(ArgNotes) :
             instruments[ArgNotes[i].instrument_id].keys = (0 :> SeedKey)

\* the instrument ids the notes use, and the frequency ids the notes of one use
UsedInstruments(ns) == {ns[i].instrument_id : i \in 1 .. Len(ns)}
RequiredIds(ns, iid) ==
    {ns[i].frequency_id : i \in {j \in 1 .. Len(ns) : ns[j].instrument_id = iid}}

\* the longest duration of the notes of instrument iid at frequency id fid
LongestDuration(ns, iid, fid) ==
    LET ds == {ns[i].duration :
                  i \in {j \in 1 .. Len(ns) :
                            ns[j].instrument_id = iid /\ ns[j].frequency_id = fid}}
    IN CHOOSE d \in ds : \A e \in ds : e <= d

\* C13 as stated: after gen_instrument_keys succeeds (alone or in render), the key
\* cache of each instrument used by the sequence holds exactly the keys for the
\* frequency ids its notes in the current sequence require, so that no key
\* generated only for an earlier sequence remains cached.
C13_CacheRebuilt_Original ==
    ((IsGenKeys \/ IsRender) /\ ret.out.status = "ok")
    => \A iid \in UsedInstruments(ArgNotes) :
          DOMAIN instruments[iid].keys = RequiredIds(ArgNotes, iid)

\* C13 as amended: a successful key-generation pass (alone or in render) leaves
\* the cache of each instrument used by the sequence with the keys it held before
\* and a key for every frequency id its notes require: the keys of the required ids
\* are generated anew (a square key as long as the longest note at that id), and
\* every other cached key stays as it was.
C13_CacheExtended ==
    [][((ret'.op = "MusicSequencer::gen_instrument_keys"
            \/ ret'.op = "MusicSequencer::render")
        /\ ret'.out.status = "ok")
       => \A iid \in UsedInstruments(ret'.arg) :
             LET required == RequiredIds(ret'.arg, iid)
                 before == instruments[iid].keys
                 after == instruments'[iid].keys
             IN /\ DOMAIN after = DOMAIN before \cup required
                /\ \A fid \in DOMAIN before \ required : after[fid] = before[fid]
                /\ instruments'[iid].key_generator = "square"
                      => \A fid \in required :
                            Len(after[fid])
                                = WholeFrames(LongestDuration(ret'.arg, iid, fid))
      ]_vars

\* C13's case: after a render, a new sequence and a second render, the cache of
\* an instrument the second sequence uses still holds a key that only the first
\* sequence required, and its key for the required id is shorter than it was made
\* for the first sequence
C13_Witness ==
    /\ IsRender /\ ret.out.status = "ok"
    /\ ArgNotes = <<Note(0, 2, 2, 0, VelDen, 0)>>
    /\ DOMAIN instruments[0].keys = {0, 1}
    /\ Len(instruments[0].keys[0]) = 1
    /\ Len(instruments[0].keys[1]) = 2

----------------------------------------------------------------------------
(* Claim about Sequence::list_frequencies_for_instruments, under SpecList *)

IsListFrequencies == ret.op = "Sequence::list_frequencies_for_instruments"

\* C14: list_frequencies_for_instruments returns a mapping whose keys are exactly
\* the instrument ids used by at least one note and in which, for each instrument,
\* every frequency id used by one of its notes appears exactly once, paired with
\* the maximum duration over all notes of that instrument at that frequency id,
\* and no other frequency id appears.
C14_FrequenciesWithMaxDuration ==
    IsListFrequencies =>
        LET used == ret.out.val IN
        /\ DOMAIN used = UsedInstruments(ArgNotes)
        /\ \A iid \in DOMAIN used :
              LET pairs == used[iid] IN
              /\ {pairs[k][1] : k \in 1 .. Len(pairs)} = RequiredIds(ArgNotes, iid)
              /\ \A j, k \in 1 .. Len(pairs) : j # k => pairs[j][1] # pairs[k][1]
              /\ \A k \in 1 .. Len(pairs) :
                    pairs[k][2] = LongestDuration(ArgNotes, iid, pairs[k][1])

\* C14's case: two notes of one instrument at one frequency id, the longer given
\* last, and a note of the other instrument, were listed
C14_Witness ==
    /\ IsListFrequencies /\ Len(ArgNotes) = 3
    /\ ArgNotes[1].instrument_id = ArgNotes[3].instrument_id
    /\ ArgNotes[1].frequency_id = ArgNotes[3].frequency_id
    /\ ArgNotes[1].duration < ArgNotes[3].duration
    /\ ArgNotes[2].instrument_id # ArgNotes[1].instrument_id
    /\ DOMAIN ret.out.val = {0, 1}
    /\ ret.out.val[ArgNotes[1].instrument_id]
          = <<(<<ArgNotes[1].frequency_id, ArgNotes[3].duration>>)>>

----------------------------------------------------------------------------
(* Claims about the sequence helpers, under SpecHardware and SpecHardwareReset *)

\* the pairs <<frequency_id, instrument_id>> sounding in current_instruments ci
Sounding(ci) == UNION {{<<fid, iid>> : fid \in DOMAIN ci[iid]} : iid \in DOMAIN ci}

\* the call recorded in r is a note-off for the pair
IsStopOf(r, pair) ==
    /\ r.op = "HardwareSequenceHelper::stop_note_with_flut"
    /\ r.arg.frequency_id = pair[1]
    /\ r.arg.instrument_id = pair[2]

\* ns is before with exactly one Note more, of the pair, from start to end
ClosedInto(ns, before, pair, start, end) ==
    /\ Len(ns) = Len(before) + 1
    /\ SubSeq(ns, 1, Len(before)) = before
    /\ ns[Len(ns)].start_at = start
    /\ ns[Len(ns)].end_at = end
    /\ ns[Len(ns)].frequency_id = pair[1]
    /\ ns[Len(ns)].instrument_id = pair[2]

\* C15: over any sequence of time_forward, start_note_with_flut and
\* stop_note_with_flut calls, each note-off for a pair that is sounding closes it
\* into exactly one Note whose start_at is the helper time of the note-on that
\* opened it and whose end_at is the helper time of the note-off, and removes the
\* pair from the sounding set; a note-on for a pair already sounding leaves the
\* open entry unchanged, and a note-off for a pair that is not sounding adds no
\* Note.  Step by step: an entry is opened with the helper time, stays as it is
\* while its pair sounds, and leaves only by its note-off, which closes it.
C15_NoteOnOffPairs ==
    [][LET before == Sounding(current_instruments)
           after == Sounding(current_instruments')
       IN /\ \A pair \in after \ before :
                /\ current_instruments'[pair[2]][pair[1]].start_at = at_time
                /\ notes' = notes
          /\ \A pair \in before \cap after :
                current_instruments'[pair[2]][pair[1]]
                    = current_instruments[pair[2]][pair[1]]
          /\ \A pair \in before \ after : IsStopOf(ret', pair)
          /\ \A pair \in before :
                IsStopOf(ret', pair)
                => /\ pair \notin after
                   /\ ClosedInto(notes', notes, pair,
                                 current_instruments[pair[2]][pair[1]].start_at, at_time)
          /\ notes' # notes => \E pair \in before : IsStopOf(ret', pair)
      ]_vars

\* C15's case: a pair opened at time 0 and asked to open again later was closed
\* into a first Note that starts at 0, and a pair of the same instrument opened
\* later into a second Note that starts later; nothing sounds any more
C15_Witness ==
    /\ ret.op = "HardwareSequenceHelper::stop_note_with_flut" /\ ret.out.status = "ok"
    /\ Len(notes) = 2
    /\ notes[1].start_at = 0 /\ notes[1].end_at > 0
    /\ notes[2].start_at > 0 /\ notes[2].end_at > notes[2].start_at
    /\ notes[1].instrument_id = notes[2].instrument_id
    /\ notes[1].frequency_id # notes[2].frequency_id
    /\ Sounding(current_instruments) = {}

\* C17: after any sequence of time_forward (with non-negative arguments),
\* reset_time, start_note_with_flut / stop_note_with_flut and new_note_with_flut
\* calls on a sequence helper, every Note in the helper's sequence is well formed:
\* end_at = start_at + duration and duration >= 0.
C17_HelperNotesWellFormed ==
    /\ WellFormed(notes)
    /\ \A i \in 1 .. Len(notes) : notes[i].duration >= 0

====
